---------------------------- MODULE Spec2Model ----------------------------
(***************************************************************************)
(* A model of the video downloader backend: the platform registry and      *)
(* detector and the HTTP handlers of routes/downloader.py, the user        *)
(* creation handler, the YouTube format extraction of                      *)
(* utils/platform_extractors.py and the media post-processor of            *)
(* utils/video_processor.py.                                               *)
(*                                                                         *)
(* Text is modelled as sequences of one-character strings wherever the     *)
(* code looks inside it (URLs, domain suffixes), and as sequences of       *)
(* message fragments where the code only concatenates it (error texts).    *)
(***************************************************************************)
EXTENDS Integers, Sequences, FiniteSets, TLC

VARIABLES
    det,        \* the detector's call: the URL given and what it returned
    users,      \* the persisted user table, a sequence of rows
    temp_dirs,  \* the temporary directories that exist on disk
    last,       \* the last finished request or extractor call
    qual,       \* a call of _get_quality_label: height and label
    fmt,        \* a call of _extract_formats: the formats given, the result
    proc,       \* the last finished VideoProcessor call
    calls,      \* the download_video calls in progress, each at its step
    files,      \* the files in each temporary directory, as listdir gives them
    reqs,       \* the POST /users requests in progress, each at its step
    vinfo       \* a call of get_video_info: the library's info, the result

vars == <<det, users, temp_dirs, last, qual, fmt, proc, calls, files, reqs, vinfo>>

None == "None"

(***************************************************************************)
(* Python's str operations used by the code, on character sequences.       *)
(***************************************************************************)
LowerOfUpper ==
    ("A" :> "a") @@ ("B" :> "b") @@ ("C" :> "c") @@ ("D" :> "d") @@
    ("E" :> "e") @@ ("F" :> "f") @@ ("G" :> "g") @@ ("H" :> "h") @@
    ("I" :> "i") @@ ("J" :> "j") @@ ("K" :> "k") @@ ("L" :> "l") @@
    ("M" :> "m") @@ ("N" :> "n") @@ ("O" :> "o") @@ ("P" :> "p") @@
    ("Q" :> "q") @@ ("R" :> "r") @@ ("S" :> "s") @@ ("T" :> "t") @@
    ("U" :> "u") @@ ("V" :> "v") @@ ("W" :> "w") @@ ("X" :> "x") @@
    ("Y" :> "y") @@ ("Z" :> "z")

UpperChars == DOMAIN LowerOfUpper

LowerChars == {LowerOfUpper[c] : c \in UpperChars}

\* urllib.parse.scheme_chars
scheme_chars == LowerChars \cup UpperChars
    \cup {"0", "1", "2", "3", "4", "5", "6", "7", "8", "9", "+", "-", "."}

\* str.lower()
lower(s) ==
    [i \in 1..Len(s) |-> IF s[i] \in UpperChars THEN LowerOfUpper[s[i]] ELSE s[i]]

\* str.startswith(p)
startswith(s, p) ==
    /\ Len(p) <= Len(s)
    /\ SubSeq(s, 1, Len(p)) = p

\* str.endswith(p)
endswith(s, p) ==
    /\ Len(p) <= Len(s)
    /\ SubSeq(s, Len(s) - Len(p) + 1, Len(s)) = p

\* The least and the greatest element of a non-empty set of numbers.
least(S) == CHOOSE i \in S : \A j \in S : i <= j

greatest(S) == CHOOSE i \in S : \A j \in S : i >= j

\* The positions of s that hold a character of cs.
positions(s, cs) == {i \in 1..Len(s) : s[i] \in cs}

first_or_0(hits) == IF hits = {} THEN 0 ELSE least(hits)

\* str.find(c) for a set of characters, 1-based; 0 when none occurs
find(s, cs) == first_or_0(positions(s, cs))

\* The positions of s that hold no blank.
nonblank(s) == {i \in 1..Len(s) : s[i] # " "}

from_first(s, keep) ==
    IF keep = {} THEN <<>> ELSE SubSeq(s, least(keep), Len(s))

between(s, keep) ==
    IF keep = {} THEN <<>> ELSE SubSeq(s, least(keep), greatest(keep))

\* str.lstrip() of blanks
lstrip(s) == from_first(s, nonblank(s))

\* str.strip() of blanks
strip(s) == between(s, nonblank(s))

\* A faulty registry: twitter's "x.com" is entered as ".com".
SUPPORTED_PLATFORMS_short ==
  <<
     [id |-> "youtube",
      domains |-> << <<"y", "o", "u", "t", "u", "b", "e", ".", "c", "o", "m">>,
                    <<"y", "o", "u", "t", "u", ".", "b", "e">>,
                    <<"m", ".", "y", "o", "u", "t", "u", "b", "e", ".", "c", "o", "m">> >>],
     [id |-> "tiktok",
      domains |-> << <<"t", "i", "k", "t", "o", "k", ".", "c", "o", "m">>,
                    <<"v", "m", ".", "t", "i", "k", "t", "o", "k", ".", "c", "o", "m">>,
                    <<"m", ".", "t", "i", "k", "t", "o", "k", ".", "c", "o", "m">> >>],
     [id |-> "instagram",
      domains |-> << <<"i", "n", "s", "t", "a", "g", "r", "a", "m", ".", "c", "o", "m">>,
                    <<"i", "n", "s", "t", "a", "g", "r", ".", "a", "m">> >>],
     [id |-> "facebook",
      domains |-> << <<"f", "a", "c", "e", "b", "o", "o", "k", ".", "c", "o", "m">>,
                    <<"f", "b", ".", "w", "a", "t", "c", "h">>,
                    <<"m", ".", "f", "a", "c", "e", "b", "o", "o", "k", ".", "c", "o", "m">> >>],
     [id |-> "twitter",
      domains |-> << <<"t", "w", "i", "t", "t", "e", "r", ".", "c", "o", "m">>,
                    <<".", "c", "o", "m">>,
                    <<"t", ".", "c", "o">> >>],
     [id |-> "vimeo",
      domains |-> << <<"v", "i", "m", "e", "o", ".", "c", "o", "m">> >>],
     [id |-> "dailymotion",
      domains |-> << <<"d", "a", "i", "l", "y", "m", "o", "t", "i", "o", "n", ".", "c", "o", "m">>,
                    <<"d", "a", "i", ".", "l", "y">> >>]
  >>

(***************************************************************************)
(* The platform registry, in the dict's iteration order.                   *)
(***************************************************************************)
SUPPORTED_PLATFORMS ==
  <<
     [id |-> "youtube",
      domains |-> << <<"y", "o", "u", "t", "u", "b", "e", ".", "c", "o", "m">>,
                    <<"y", "o", "u", "t", "u", ".", "b", "e">>,
                    <<"m", ".", "y", "o", "u", "t", "u", "b", "e", ".", "c", "o", "m">> >>],
     [id |-> "tiktok",
      domains |-> << <<"t", "i", "k", "t", "o", "k", ".", "c", "o", "m">>,
                    <<"v", "m", ".", "t", "i", "k", "t", "o", "k", ".", "c", "o", "m">>,
                    <<"m", ".", "t", "i", "k", "t", "o", "k", ".", "c", "o", "m">> >>],
     [id |-> "instagram",
      domains |-> << <<"i", "n", "s", "t", "a", "g", "r", "a", "m", ".", "c", "o", "m">>,
                    <<"i", "n", "s", "t", "a", "g", "r", ".", "a", "m">> >>],
     [id |-> "facebook",
      domains |-> << <<"f", "a", "c", "e", "b", "o", "o", "k", ".", "c", "o", "m">>,
                    <<"f", "b", ".", "w", "a", "t", "c", "h">>,
                    <<"m", ".", "f", "a", "c", "e", "b", "o", "o", "k", ".", "c", "o", "m">> >>],
     [id |-> "twitter",
      domains |-> << <<"t", "w", "i", "t", "t", "e", "r", ".", "c", "o", "m">>,
                    <<"x", ".", "c", "o", "m">>,
                    <<"t", ".", "c", "o">> >>],
     [id |-> "vimeo",
      domains |-> << <<"v", "i", "m", "e", "o", ".", "c", "o", "m">> >>],
     [id |-> "dailymotion",
      domains |-> << <<"d", "a", "i", "l", "y", "m", "o", "t", "i", "o", "n", ".", "c", "o", "m">>,
                    <<"d", "a", "i", ".", "l", "y">> >>]
  >>

PlatformIds == {SUPPORTED_PLATFORMS[i].id : i \in 1..Len(SUPPORTED_PLATFORMS)}

(***************************************************************************)
(* urlparse(url).netloc, as urllib.parse.urlsplit computes it: leading     *)
(* blanks are dropped, a scheme is split off at the first ':' when         *)
(* everything before it is made of scheme characters and starts with a     *)
(* letter, and the netloc is what follows a leading "//" up to the first   *)
(* '/', '?' or '#'.  A netloc with one square bracket and not the other    *)
(* raises ValueError.                                                      *)
(***************************************************************************)
\* url with its scheme split off at position i of the first ':'
after_scheme(url, i) ==
    IF /\ i > 1
       /\ url[1] \in LowerChars \cup UpperChars
       /\ \A k \in 1..(i - 1) : url[k] \in scheme_chars
    THEN SubSeq(url, i + 1, Len(url))
    ELSE url

\* _splitnetloc: rest up to the delimiter at position delim, if any
up_to(rest, delim) ==
    IF delim = 0 THEN rest ELSE SubSeq(rest, 1, delim - 1)

netloc_of(url) ==
    IF startswith(url, <<"/", "/">>)
    THEN up_to(SubSeq(url, 3, Len(url)),
               find(SubSeq(url, 3, Len(url)), {"/", "?", "#"}))
    ELSE <<>>

parse_result(netloc) ==
    [raised |-> (find(netloc, {"["}) # 0) # (find(netloc, {"]"}) # 0),
     netloc |-> netloc]

split_scheme(url) == after_scheme(url, find(url, {":"}))

urlparse(url) == parse_result(netloc_of(split_scheme(lstrip(url))))

(***************************************************************************)
(* detect_platform(url): the id of the first registry entry one of whose   *)
(* domains the netloc ends with, None when there is none or urlparse       *)
(* raised.                                                                 *)
(***************************************************************************)
\* if domain.startswith('www.'): domain = domain[4:]
strip_www(domain) ==
    IF startswith(domain, <<"w", "w", "w", ".">>)
    THEN SubSeq(domain, 5, Len(domain))
    ELSE domain

\* The registry entries one of whose domains the domain ends with.
matching(domain) ==
    {p \in 1..Len(SUPPORTED_PLATFORMS) :
        \E d \in 1..Len(SUPPORTED_PLATFORMS[p].domains) :
            endswith(domain, SUPPORTED_PLATFORMS[p].domains[d])}

\* The loop over the registry returns at the first entry that matches.
first_platform(hits) ==
    IF hits = {} THEN None
    ELSE SUPPORTED_PLATFORMS[CHOOSE p \in hits : \A q \in hits : p <= q].id

\* A faulty platform_of: without the try, the ValueError of urlparse leaves
\* detect_platform.
platform_of_unguarded(parsed_url) ==
    IF parsed_url.raised THEN "ValueError"
    ELSE first_platform(matching(strip_www(lower(parsed_url.netloc))))

platform_of(parsed_url) ==
    IF parsed_url.raised THEN None
    ELSE first_platform(matching(strip_www(lower(parsed_url.netloc))))

detect_platform(url) == platform_of(urlparse(url))

(***************************************************************************)
(* Values of the variables a specification does not use.                   *)
(***************************************************************************)
IdleDet == [url |-> <<>>, result |-> "idle"]

IdleLast == [op |-> "none"]

IdleQual == [height |-> 0, label |-> "idle"]

IdleFmt == [formats |-> <<>>, result |-> "idle"]

IdleProc == [op |-> "none"]

(***************************************************************************)
(* The detector on its own: a URL is assembled from its parts, and         *)
(* detect_platform is applied to the assembled text.                       *)
(***************************************************************************)
RegisteredDomains ==
    UNION { {SUPPORTED_PLATFORMS[p].domains[d] :
                d \in 1..Len(SUPPORTED_PLATFORMS[p].domains)} :
            p \in 1..Len(SUPPORTED_PLATFORMS) }

OtherDomains ==
    { <<"e", "x", "a", "m", "p", "l", "e", ".", "c", "o", "m">>,
      <<"y", "o", "u", "t", "u", "b", "e", ".", "c", "o">>,
      <<"x", ".", "c", "o">> }

UrlParts ==
    [scheme : { <<>>, <<"h", "t", "t", "p", "s", ":", "/", "/">> },
     userinfo : { <<>>, <<"u", "@">> },
     www : { <<>>, <<"w", "w", "w", ".">> },
     sub : { <<>>, <<"m", ".">>, <<"M", ".">>, <<"n", "o">> },
     domain : RegisteredDomains \cup OtherDomains,
     port : { <<>>, <<":", "4", "4", "3">> },
     tail : { <<>>, <<"/", "w">>, <<"?", "v">> }]

\* The text of the URL with these parts.
UrlText(p) ==
    p.scheme \o p.userinfo \o p.www \o p.sub \o p.domain \o p.port \o p.tail

DetectInit ==
    /\ det \in {[parts |-> p, url |-> UrlText(p), result |-> "pending"] :
                    p \in UrlParts}
    /\ users = <<>>
    /\ calls = <<>>
    /\ files = <<>>
    /\ reqs = <<>>
    /\ vinfo = IdleLast
    /\ temp_dirs = {}
    /\ last = IdleLast
    /\ qual = IdleQual
    /\ fmt = IdleFmt
    /\ proc = IdleProc

Detect ==
    /\ det.result = "pending"
    /\ det' = [det EXCEPT !.result = detect_platform(det.url)]
    /\ UNCHANGED <<users, temp_dirs, last, qual, fmt, proc, calls, files, reqs, vinfo>>

SpecDetect == DetectInit /\ [][Detect]_vars

(***************************************************************************)
(* The detector on texts that need not be URLs: a head, a host and a tail  *)
(* put together, with heads that are no scheme, hosts with a stray square  *)
(* bracket, and the empty text.                                            *)
(***************************************************************************)
AnyTextInit ==
    /\ det \in {[parts |-> p, url |-> p.head \o p.host \o p.tail,
                 result |-> "pending"] :
                   p \in [head : { <<>>, <<"/", "/">>,
                                   <<"h", "t", "t", "p", ":", "/", "/">>,
                                   <<"h", "t", "t", "p", ":">>, <<":">>, <<" ">>,
                                   <<"1", ":", "/", "/">> },
                          host : { <<>>, <<"[">>, <<"]">>, <<"[", ":", ":", "1">>,
                                   <<"t", ".", "c", "o">>,
                                   <<"Y", "O", "U", "T", "U", ".", "B", "E">>,
                                   <<"w", "w", "w", ".">>,
                                   <<"a", "]", "x", ".", "c", "o", "m">> },
                          tail : { <<>>, <<"/", "[">>, <<"?", "]">>, <<"#">>,
                                   <<"/", "x", ".", "c", "o", "m">> }]}
    /\ calls = <<>>
    /\ files = <<>>
    /\ reqs = <<>>
    /\ vinfo = IdleLast
    /\ users = <<>>
    /\ temp_dirs = {}
    /\ last = IdleLast
    /\ qual = IdleQual
    /\ fmt = IdleFmt
    /\ proc = IdleProc

SpecAnyText == AnyTextInit /\ [][Detect]_vars

(***************************************************************************)
(* The detector under another iteration order of the registry: order is a  *)
(* permutation of the entries, and the loop returns at the first entry in  *)
(* that order one of whose domains matches.  The orders are the rotations  *)
(* of the dict's order and of its reverse, so that every two entries meet  *)
(* in both orders.                                                         *)
(***************************************************************************)
\* for platform, config in SUPPORTED_PLATFORMS.items(), taken in order
first_in_order(order, hits) ==
    IF hits = {} THEN None
    ELSE SUPPORTED_PLATFORMS[
             order[least({k \in 1..Len(order) : order[k] \in hits})]].id

OrderInit ==
    /\ det \in {[parts |-> p, url |-> UrlText(p), order |-> o,
                 result |-> "pending"] :
                   p \in {q \in UrlParts : /\ q.scheme # <<>>
                                           /\ q.userinfo = <<>>
                                           /\ q.port = <<>>},
                   o \in {[k \in 1..Len(SUPPORTED_PLATFORMS) |->
                              ((k + r) % Len(SUPPORTED_PLATFORMS)) + 1] :
                             r \in 1..Len(SUPPORTED_PLATFORMS)}
                         \cup
                         {[k \in 1..Len(SUPPORTED_PLATFORMS) |->
                              Len(SUPPORTED_PLATFORMS)
                                - ((k + r) % Len(SUPPORTED_PLATFORMS))] :
                             r \in 1..Len(SUPPORTED_PLATFORMS)}}
    /\ calls = <<>>
    /\ files = <<>>
    /\ reqs = <<>>
    /\ vinfo = IdleLast
    /\ users = <<>>
    /\ temp_dirs = {}
    /\ last = IdleLast
    /\ qual = IdleQual
    /\ fmt = IdleFmt
    /\ proc = IdleProc

\* detect_platform(url) with the registry iterated in det.order
DetectInOrder ==
    /\ det.result = "pending"
    /\ \E parsed_url \in {urlparse(det.url)} :
          det' = [det EXCEPT !.result =
                     IF parsed_url.raised THEN None
                     ELSE first_in_order(
                              det.order,
                              matching(strip_www(lower(parsed_url.netloc))))]
    /\ UNCHANGED <<users, temp_dirs, last, qual, fmt, proc, calls, files, reqs, vinfo>>

SpecOrder == OrderInit /\ [][DetectInOrder]_vars

(***************************************************************************)
(* The host a URL was assembled with: lower-cased, one leading "www."      *)
(* dropped.  A text without "scheme://" names no host.                     *)
(***************************************************************************)
HostOf(p) ==
    IF p.scheme = <<>> THEN <<>> ELSE lower(p.sub \o p.domain)

PlatformsOfHost(h) ==
    {SUPPORTED_PLATFORMS[p].id : p \in
        {q \in 1..Len(SUPPORTED_PLATFORMS) :
            \E d \in 1..Len(SUPPORTED_PLATFORMS[q].domains) :
                endswith(h, SUPPORTED_PLATFORMS[q].domains[d])}}

\* C1: once detect_platform has returned, the result is the platform one of
\* whose registered suffixes the URL's host ends with, and None when the host
\* ends with no registered suffix; for every URL form, explicit ports and
\* userinfo included.
C1_DetectByHost ==
    det.result \notin {"pending", "idle"} =>
        LET ps == PlatformsOfHost(HostOf(det.parts))
        IN  IF ps = {} THEN det.result = None ELSE det.result \in ps


(***************************************************************************)
(* The HTTP layer.  A request body is no JSON at all, a JSON value that    *)
(* is not an object, or an object whose "url" is absent, null, a number    *)
(* or a string.  validators.url is an external check: its verdict on the   *)
(* URL is an input of the request.                                         *)
(***************************************************************************)
NoText == <<>>

UrlField(t, s) == [t |-> t, s |-> s]

HttpUrls ==
    { <<>>,
      <<" ">>,
      <<"h", "t", "t", "p", "s", ":", "/", "/", "y", "o", "u", "t", "u", ".", "b", "e", "/", "w">>,
      <<" ", "h", "t", "t", "p", "s", ":", "/", "/", "v", "m", ".", "t", "i", "k", "t", "o", "k", ".", "c", "o", "m", " ">>,
      <<"h", "t", "t", "p", "s", ":", "/", "/", "x", ".", "c", "o", "/", "w">>,
      <<"h", "t", "t", "p", "s", ":", "/", "/", "x", ".", "c", "o", "m", ":", "4", "4", "3">> }

Bodies ==
    { [kind |-> "none", url |-> UrlField("absent", NoText)],
      [kind |-> "array", url |-> UrlField("absent", NoText)] }
    \cup { [kind |-> "object", url |-> UrlField(t, NoText)] :
              t \in {"absent", "null", "int"} }
    \cup { [kind |-> "object", url |-> UrlField("str", s)] : s \in HttpUrls }

\* data = request.get_json(); url = data.get('url', '').strip()
\* Without a JSON body get_json raises or returns None, and None has no
\* get; a non-object has no get; null and numbers have no strip.
request_url(body) ==
    IF body.kind = "none"
    THEN [raised |-> TRUE, err |-> <<"no JSON body">>, url |-> NoText]
    ELSE IF body.kind = "array"
    THEN [raised |-> TRUE, err |-> <<"'list' object has no attribute 'get'">>,
          url |-> NoText]
    ELSE IF body.url.t = "absent"
    THEN [raised |-> FALSE, err |-> NoText, url |-> NoText]
    ELSE IF body.url.t = "null"
    THEN [raised |-> TRUE,
          err |-> <<"'NoneType' object has no attribute 'strip'">>,
          url |-> NoText]
    ELSE IF body.url.t = "int"
    THEN [raised |-> TRUE, err |-> <<"'int' object has no attribute 'strip'">>,
          url |-> NoText]
    ELSE [raised |-> FALSE, err |-> NoText, url |-> strip(body.url.s)]

\* jsonify({...}), status
Response(status, success, error, platform, lib_calls, payload) ==
    [status |-> status, success |-> success, error |-> error,
     platform |-> platform, lib_calls |-> lib_calls, payload |-> payload]

NoPayload == [kind |-> "none"]

(***************************************************************************)
(* The extraction library.  extract_info either raises with an error text  *)
(* or returns the info of the video.                                       *)
(***************************************************************************)
LibErrors == { <<"E1">>, <<"E2">> }

\* A value of the info dict that the library may leave out or report as
\* null is a record {t, v}: t is "absent", "null", "int" or "str".
Absent == [t |-> "absent", v |-> 0]

Null == [t |-> "null", v |-> 0]

Int_(n) == [t |-> "int", v |-> n]

\* An info dict with the title only.
NoFields ==
    [duration |-> Absent, view_count |-> Absent,
     thumbnail |-> [t |-> "absent", v |-> ""],
     uploader |-> [t |-> "absent", v |-> ""],
     upload_date |-> [t |-> "absent", v |-> ""],
     description |-> [t |-> "absent", v |-> <<>>],
     formats |-> [t |-> "absent", v |-> <<>>]]

Titles == { "absent", "T1" }

Raises(text) ==
    [raises |-> TRUE, text |-> text, title |-> "absent", info |-> NoFields]

Returns(title) ==
    [raises |-> FALSE, text |-> NoText, title |-> title, info |-> NoFields]

ExtractOutcomes ==
    {Raises(e) : e \in LibErrors} \cup {Returns(t) : t \in Titles}

NoLib == Raises(NoText)

DescriptionCut == 200

\* info.get('description', '')[:200] + '...' if info.get('description') else ''
description(d) ==
    IF d.t # "str" \/ d.v = <<>> THEN <<>>
    ELSE SubSeq(d.v, 1, IF Len(d.v) < DescriptionCut THEN Len(d.v)
                        ELSE DescriptionCut) \o <<".", ".", ".">>

\* video_info = {...}: info.get(key, default) for each key, and the formats
\* whose vcodec is not 'none'
video_info(title, info) ==
    [kind |-> "video_info",
     title |-> IF title = "absent" THEN "Unknown Title" ELSE title,
     duration |-> IF info.duration.t = "absent" THEN Int_(0) ELSE info.duration,
     thumbnail |-> IF info.thumbnail.t = "absent" THEN [t |-> "str", v |-> ""]
                   ELSE info.thumbnail,
     uploader |-> IF info.uploader.t = "absent"
                  THEN [t |-> "str", v |-> "Unknown"]
                  ELSE info.uploader,
     view_count |-> IF info.view_count.t = "absent" THEN Int_(0)
                    ELSE info.view_count,
     upload_date |-> IF info.upload_date.t = "absent" THEN [t |-> "str", v |-> ""]
                     ELSE info.upload_date,
     description |-> description(info.description),
     formats |-> SelectSeq(info.formats.v, LAMBDA f : f.vcodec # "none")]

\* A faulty get_video_info: it raises a fixed message and loses the
\* library's error text.
get_video_info_generic(url, lib) ==
    IF lib.raises
    THEN [raised |-> TRUE, err |-> <<"Failed to extract video info">>,
          calls |-> 1, video_info |-> NoPayload]
    ELSE [raised |-> FALSE, err |-> NoText, calls |-> 1,
          video_info |-> video_info(lib.title, lib.info)]

\* get_video_info(url): one extract_info call; every exception is raised
\* again as "Failed to extract video info: " + its text.
get_video_info(url, lib) ==
    IF lib.raises
    THEN [raised |-> TRUE,
          err |-> <<"Failed to extract video info: ">> \o lib.text,
          calls |-> 1,
          video_info |-> NoPayload]
    ELSE [raised |-> FALSE,
          err |-> NoText,
          calls |-> 1,
          video_info |-> video_info(lib.title, lib.info)]

\* The three error responses of the URL checks.
url_required == Response(400, FALSE, <<"URL is required">>, None, 0, NoPayload)

invalid_format == Response(400, FALSE, <<"Invalid URL format">>, None, 0, NoPayload)

unsupported == Response(400, FALSE, <<"Unsupported platform">>, None, 0, NoPayload)

\* except Exception as e: jsonify({'success': False, 'error': str(e)}), 500
server_error(err, lib_calls) == Response(500, FALSE, err, None, lib_calls, NoPayload)

\* POST /api/detect, from platform = detect_platform(url) on
detect_found(platform) ==
    IF platform = None THEN unsupported
    ELSE Response(200, TRUE, NoText, platform, 0, [kind |-> "platform_info"])

\* POST /api/detect, from the parsed request on
detect_checked(r, verdict) ==
    IF r.raised THEN server_error(r.err, 0)
    ELSE IF r.url = NoText THEN url_required
    ELSE IF ~verdict THEN invalid_format
    ELSE detect_found(detect_platform(r.url))

\* POST /api/detect
detect_video_platform(body, verdict) == detect_checked(request_url(body), verdict)

\* POST /api/info, from video_info = get_video_info(url) on
info_result(platform, v) ==
    IF v.raised THEN server_error(v.err, v.calls)
    ELSE Response(200, TRUE, NoText, platform, v.calls, v.video_info)

\* POST /api/info, from platform = detect_platform(url) on
info_found(platform, url, lib) ==
    IF platform = None THEN unsupported
    ELSE info_result(platform, get_video_info(url, lib))

\* A faulty info_checked: it does not ask validators.url.
info_checked_unvalidated(r, verdict, lib) ==
    IF r.raised THEN server_error(r.err, 0)
    ELSE IF r.url = NoText THEN url_required
    ELSE info_found(detect_platform(r.url), r.url, lib)

\* POST /api/info, from the parsed request on
info_checked(r, verdict, lib) ==
    IF r.raised THEN server_error(r.err, 0)
    ELSE IF r.url = NoText THEN url_required
    ELSE IF ~verdict THEN invalid_format
    ELSE info_found(detect_platform(r.url), r.url, lib)

\* POST /api/info
get_video_information(body, verdict, lib) ==
    info_checked(request_url(body), verdict, lib)

(***************************************************************************)
(* The download path.  The library's download step either raises or        *)
(* leaves files in the temporary directory; os.listdir returns them in     *)
(* some order.                                                             *)
(***************************************************************************)
MaxTempDirs == 2

F_mp4 == [name |-> <<"v", ".", "m", "p", "4">>, size |-> 7]

F_webm == [name |-> <<"v", ".", "w", "e", "b", "m">>, size |-> 5]

F_part == [name |-> <<"v", ".", "p", "a", "r", "t">>, size |-> 3]

F_nodot == [name |-> <<"m", "p", "4">>, size |-> 1]

Listings ==
    { <<>>, <<F_mp4>>, <<F_part>>, <<F_nodot>>, <<F_part, F_webm>>,
      <<F_webm, F_mp4>> }

DownloadOutcome(extract, dl_raises, dl_text, listing) ==
    [extract |-> extract, dl_raises |-> dl_raises, dl_text |-> dl_text,
     listing |-> listing]

DownloadOutcomes ==
    {DownloadOutcome(Raises(e), FALSE, NoText, <<>>) : e \in LibErrors}
    \cup {DownloadOutcome(Returns(t), TRUE, e, <<>>) :
              t \in Titles, e \in LibErrors}
    \cup {DownloadOutcome(Returns(t), FALSE, NoText, l) :
              t \in Titles, l \in Listings}

NoDownload == DownloadOutcome(NoLib, FALSE, NoText, <<>>)

NoFile == [file_path |-> <<>>, filename |-> NoText, title |-> "absent",
           size |-> 0, temp_dir |-> 0]

\* A faulty mkdtemp: every call is given the same directory.
mkdtemp_shared(dirs) == 1

\* tempfile.mkdtemp(): a directory that did not exist before
mkdtemp(dirs) == CHOOSE d \in 1..(Cardinality(dirs) + 1) : d \notin dirs

\* The positions of the listing whose file name ends with a video extension.
video_files(listing) ==
    {i \in 1..Len(listing) :
        \E x \in { <<".", "m", "p", "4">>, <<".", "w", "e", "b", "m">>,
                   <<".", "m", "k", "v">>, <<".", "a", "v", "i">> } :
            endswith(listing[i].name, x)}

\* title = info.get('title', 'video')
title_of(extract) == IF extract.title = "absent" THEN "video" ELSE extract.title

\* A faulty found_file: the scan keeps the last video file it meets.
found_file_last(temp_dir, dl, hits) ==
    IF hits = {}
    THEN [raised |-> TRUE,
          err |-> <<"Download failed: ", "No video file found after download">>,
          calls |-> 2, result |-> NoFile]
    ELSE [raised |-> FALSE, err |-> NoText, calls |-> 2,
          result |-> [file_path |-> <<temp_dir, dl.listing[greatest(hits)].name>>,
                      filename |-> dl.listing[greatest(hits)].name,
                      title |-> title_of(dl.extract),
                      size |-> dl.listing[greatest(hits)].size,
                      temp_dir |-> temp_dir]]

\* The scan of the directory: the first video file, or no file found.
found_file(temp_dir, dl, hits) ==
    IF hits = {}
    THEN [raised |-> TRUE,
          err |-> <<"Download failed: ", "No video file found after download">>,
          calls |-> 2, result |-> NoFile]
    ELSE [raised |-> FALSE, err |-> NoText, calls |-> 2,
          result |-> [file_path |-> <<temp_dir, dl.listing[least(hits)].name>>,
                      filename |-> dl.listing[least(hits)].name,
                      title |-> title_of(dl.extract),
                      size |-> dl.listing[least(hits)].size,
                      temp_dir |-> temp_dir]]

\* download_video(url, quality, format_type) in the directory mkdtemp gave:
\* extract_info, then download, then the scan; every exception is raised
\* again as "Download failed: " + its text.
download_video(url, format_type, temp_dir, dl) ==
    IF dl.extract.raises
    THEN [raised |-> TRUE, err |-> <<"Download failed: ">> \o dl.extract.text,
          calls |-> 1, result |-> NoFile]
    ELSE IF dl.dl_raises
    THEN [raised |-> TRUE, err |-> <<"Download failed: ">> \o dl.dl_text,
          calls |-> 2, result |-> NoFile]
    ELSE found_file(temp_dir, dl, video_files(dl.listing))

\* format_type = data.get('format', 'mp4')
format_of(format) == IF format = "absent" THEN "mp4" ELSE format

\* download_video was not called.
NotCalled == [raised |-> FALSE, err |-> NoText, calls |-> 0, result |-> NoFile]

\* A response that leaves the directories as they are.
stay(resp, dirs) == [resp |-> resp, dirs |-> dirs, ret |-> NotCalled]

\* POST /api/download, from download_result = download_video(...) on
download_result(platform, format_type, d) ==
    IF d.raised THEN server_error(d.err, d.calls)
    ELSE Response(200, TRUE, NoText, platform, d.calls,
                  [kind |-> "file",
                   file_path |-> d.result.file_path,
                   download_name |-> <<d.result.title, ".", format_type>>,
                   mimetype |-> "video/mp4"])

\* POST /api/download, after download_video returned or raised d; nothing
\* removes the directory it made.
download_done(platform, format_type, dirs, d) ==
    [dirs |-> dirs, resp |-> download_result(platform, format_type, d),
     ret |-> d]

\* A faulty download_in: the directory is removed once the call is over.
download_in_removed(platform, url, format_type, dirs, temp_dir, dl) ==
    download_done(platform, format_type, dirs,
                  download_video(url, format_type, temp_dir, dl))

\* POST /api/download, the call of download_video in a new directory
download_in(platform, url, format_type, dirs, temp_dir, dl) ==
    download_done(platform, format_type, dirs \cup {temp_dir},
                  download_video(url, format_type, temp_dir, dl))

\* POST /api/download, from platform = detect_platform(url) on
download_found(platform, url, format_type, dirs, dl) ==
    IF platform = None THEN stay(unsupported, dirs)
    ELSE download_in(platform, url, format_type, dirs, mkdtemp(dirs), dl)

\* POST /api/download, from the parsed request on
download_checked(r, verdict, format_type, dirs, dl) ==
    IF r.raised THEN stay(server_error(r.err, 0), dirs)
    ELSE IF r.url = NoText THEN stay(url_required, dirs)
    ELSE IF ~verdict THEN stay(invalid_format, dirs)
    ELSE download_found(detect_platform(r.url), r.url, format_type, dirs, dl)

\* POST /api/download; .dirs is the set of directories after the request
download_video_endpoint(body, verdict, format, dirs, dl) ==
    download_checked(request_url(body), verdict, format_of(format), dirs, dl)

(***************************************************************************)
(* POST /users.  The body is a JSON object whose username and email are    *)
(* absent, empty or given; a row is {id, username, email}.                 *)
(***************************************************************************)
MaxRows == 3

UserBodies == [username : {"absent", "", "u1", "u2"},
               email : {"absent", "", "e1", "e2"}]

\* A faulty create_user: it looks for the username only.
create_user_by_username(body, table) ==
    IF body.username \in {"absent", ""} \/ body.email \in {"absent", ""}
    THEN [status |-> 400, error |-> <<"Missing username or email">>,
          table |-> table]
    ELSE IF \E i \in 1..Len(table) : table[i].username = body.username
    THEN [status |-> 409, error |-> <<"User already exists">>, table |-> table]
    ELSE [status |-> 201, error |-> NoText,
          table |-> Append(table, [id |-> Len(table) + 1,
                                   username |-> body.username,
                                   email |-> body.email])]

\* create_user(): .table is the table after the request
create_user(body, table) ==
    IF body.username \in {"absent", ""} \/ body.email \in {"absent", ""}
    THEN [status |-> 400, error |-> <<"Missing username or email">>,
          table |-> table]
    ELSE IF \E i \in 1..Len(table) :
                table[i].username = body.username \/ table[i].email = body.email
    THEN [status |-> 409, error |-> <<"User already exists">>, table |-> table]
    ELSE [status |-> 201, error |-> NoText,
          table |-> Append(table, [id |-> Len(table) + 1,
                                   username |-> body.username,
                                   email |-> body.email])]


(***************************************************************************)
(* YouTubeExtractor.                                                       *)
(***************************************************************************)
\* A faulty _get_quality_label: 720 itself falls below the 720p step.
quality_label_above(height) ==
    IF height >= 2160 THEN "4K"
    ELSE IF height >= 1440 THEN "1440p"
    ELSE IF height >= 1080 THEN "1080p"
    ELSE IF height > 720 THEN "720p"
    ELSE IF height >= 480 THEN "480p"
    ELSE IF height >= 360 THEN "360p"
    ELSE "240p"

\* _get_quality_label(height)
_get_quality_label(height) ==
    IF height >= 2160 THEN "4K"
    ELSE IF height >= 1440 THEN "1440p"
    ELSE IF height >= 1080 THEN "1080p"
    ELSE IF height >= 720 THEN "720p"
    ELSE IF height >= 480 THEN "480p"
    ELSE IF height >= 360 THEN "360p"
    ELSE "240p"

\* dict.get(key, 0): the default only stands in for an absent key
get_or_0(x) == IF x.t = "absent" THEN Int_(0) ELSE x

\* dict.get(key): None for an absent key
get_or_None(x) == IF x.t = "absent" THEN Null ELSE x

\* The entry _extract_formats stores for a format under its quality label.
quality_entry(f, quality_label) ==
    [format_id |-> f.format_id,
     quality |-> quality_label,
     height |-> get_or_0(f.height).v,
     filesize |-> get_or_None(f.filesize),
     vcodec |-> f.vcodec,
     acodec |-> f.acodec]

\* quality_map[quality_label] = {...}
store(st, f, quality_label) ==
    [st EXCEPT
        !.labels = IF \E i \in 1..Len(@) : @[i] = quality_label THEN @
                   ELSE Append(@, quality_label),
        !.quality_map = (quality_label :> quality_entry(f, quality_label)) @@ @]

\* fmt.get('filesize', 0) > quality_map[quality_label].get('filesize', 0):
\* comparing with None raises TypeError, which ends the loop.
compare_and_store(st, f, quality_label, mine, held) ==
    IF mine.t = "null" \/ held.t = "null" THEN [st EXCEPT !.raised = TRUE]
    ELSE IF mine.v > held.v THEN store(st, f, quality_label)
    ELSE st

\* if quality_label not in quality_map or ... > ...
step_for_label(st, f, quality_label) ==
    IF \A i \in 1..Len(st.labels) : st.labels[i] # quality_label
    THEN store(st, f, quality_label)
    ELSE compare_and_store(st, f, quality_label, get_or_0(f.filesize),
                           st.quality_map[quality_label].filesize)

\* One round of the loop of _extract_formats on format f.  st.labels is the
\* insertion order of quality_map's keys.
extract_formats_step(st, f) ==
    IF st.raised \/ f.vcodec = "none" \/ f.acodec = "none" THEN st
    ELSE step_for_label(st, f, _get_quality_label(get_or_0(f.height).v))

RECURSIVE extract_formats_loop(_, _, _)
extract_formats_loop(formats, i, st) ==
    IF i > Len(formats) THEN st
    ELSE extract_formats_loop(formats, i + 1, extract_formats_step(st, formats[i]))

\* formats = list(quality_map.values())
formats_of(st) ==
    IF st.raised
    THEN [raised |-> TRUE,
          err |-> <<"'>' not supported between instances of 'int' and 'NoneType'">>,
          formats |-> <<>>]
    ELSE [raised |-> FALSE, err |-> NoText,
          formats |-> [i \in 1..Len(st.labels) |-> st.quality_map[st.labels[i]]]]

\* YouTubeExtractor._extract_formats(info): info.present says whether info
\* has the key 'formats'.
_extract_formats(info) ==
    IF ~info.present THEN [raised |-> FALSE, err |-> NoText, formats |-> <<>>]
    ELSE formats_of(extract_formats_loop(info.formats, 1,
                        [raised |-> FALSE, labels |-> <<>>, quality_map |-> <<>>]))

\* What extract_video_info returns: the dict, or {'error': text}.
Extracted(failed, error, formats) ==
    [error |-> error, failed |-> failed, escaped |-> FALSE, calls |-> 1,
     formats |-> formats]

youtube_result(fs) ==
    IF fs.raised THEN Extracted(TRUE, fs.err, <<>>)
    ELSE Extracted(FALSE, NoText, fs.formats)

\* YouTubeExtractor.extract_video_info(url): every exception, the
\* library's or one of _extract_formats, becomes {'error': text}.
YouTubeExtractor_extract_video_info(lib) ==
    IF lib.raises THEN Extracted(TRUE, lib.text, <<>>)
    ELSE youtube_result(_extract_formats(lib.info))

\* The formats TikTok, Instagram, Facebook and Twitter keep: the video ones.
video_formats(info) ==
    IF ~info.present THEN <<>>
    ELSE SelectSeq([i \in 1..Len(info.formats) |->
                        [format_id |-> info.formats[i].format_id,
                         filesize |-> get_or_None(info.formats[i].filesize),
                         vcodec |-> info.formats[i].vcodec]],
                   LAMBDA e : e.vcodec # "none")

\* TikTokExtractor.extract_video_info(url); the Instagram, Facebook and
\* Twitter extractors have the same shape.
TikTokExtractor_extract_video_info(lib) ==
    IF lib.raises THEN Extracted(TRUE, lib.text, <<>>)
    ELSE Extracted(FALSE, NoText, video_formats(lib.info))

(***************************************************************************)
(* VideoProcessor.  subprocess.run either raises (the tool cannot be       *)
(* started) or the tool runs and exits with a code.  The probe's output    *)
(* is not JSON, or JSON without 'format', or with a 'format' without       *)
(* 'duration', or with a duration that is not a number, or with a          *)
(* duration in seconds.                                                    *)
(***************************************************************************)
MaxSizeMb == 50

MaxDuration == 100

ToolOutcomes ==
    { [raises |-> TRUE, code |-> 1],
      [raises |-> FALSE, code |-> 0],
      [raises |-> FALSE, code |-> 1] }

Stdout(kind, d) == [kind |-> kind, d |-> d]

ProbeOutcomes ==
    { [raises |-> TRUE, code |-> 1, stdout |-> Stdout("garbage", 0)],
      [raises |-> FALSE, code |-> 1, stdout |-> Stdout("garbage", 0)],
      [raises |-> FALSE, code |-> 1, stdout |-> Stdout("duration", MaxDuration)] }
    \cup { [raises |-> FALSE, code |-> 0, stdout |-> Stdout(k, 0)] :
              k \in {"garbage", "no_format", "no_duration", "unparsable"} }
    \cup { [raises |-> FALSE, code |-> 0, stdout |-> Stdout("duration", d)] :
              d \in 0..MaxDuration }

NoProbe == [raises |-> TRUE, code |-> 1, stdout |-> Stdout("garbage", 0)]

\* A faulty get_video_metadata: it parses the output whatever the exit code.
get_video_metadata_any_exit(probe) ==
    IF probe.raises THEN [has_format |-> FALSE, duration |-> Absent]
    ELSE IF probe.stdout.kind \in {"garbage", "no_format"}
    THEN [has_format |-> FALSE, duration |-> Absent]
    ELSE IF probe.stdout.kind = "no_duration"
    THEN [has_format |-> TRUE, duration |-> Absent]
    ELSE IF probe.stdout.kind = "unparsable"
    THEN [has_format |-> TRUE, duration |-> [t |-> "text", v |-> 0]]
    ELSE [has_format |-> TRUE, duration |-> Int_(probe.stdout.d)]

\* get_video_metadata(video_path): the parsed output of a probe that
\* exited 0, {} otherwise.  'duration' is absent, a number or a text.
EmptyMetadata == [has_format |-> FALSE, duration |-> Absent]

get_video_metadata(probe) ==
    IF probe.raises THEN EmptyMetadata
    ELSE IF probe.code # 0 THEN EmptyMetadata
    ELSE IF probe.stdout.kind \in {"garbage", "no_format"} THEN EmptyMetadata
    ELSE IF probe.stdout.kind = "no_duration"
    THEN [has_format |-> TRUE, duration |-> Absent]
    ELSE IF probe.stdout.kind = "unparsable"
    THEN [has_format |-> TRUE, duration |-> [t |-> "text", v |-> 0]]
    ELSE [has_format |-> TRUE, duration |-> Int_(probe.stdout.d)]

NoCmd == [bitrate |-> 0, maxrate_tenths |-> 0, bufsize |-> 0, filter |-> <<>>]

\* What an operation did: what it returned, whether an exception left it,
\* whether it called subprocess.run on the tool's command, whether the tool ran.
Out(ret, invoked, ran, cmd) ==
    [ret |-> ret, escaped |-> FALSE, invoked |-> invoked, ran |-> ran,
     cmd |-> cmd]

\* result = subprocess.run(cmd, capture_output=True)
\* return result.returncode == 0, inside try/except Exception: return False
run_tool(cmd, tool) ==
    IF tool.raises THEN Out(FALSE, TRUE, FALSE, cmd)
    ELSE Out(tool.code = 0, TRUE, TRUE, cmd)

enhance_video_quality(tool) == run_tool(NoCmd, tool)

remove_watermark_by_cropping(tool) == run_tool(NoCmd, tool)

convert_format(tool) == run_tool(NoCmd, tool)

extract_audio(tool) == run_tool(NoCmd, tool)

create_thumbnail(tool) == run_tool(NoCmd, tool)

\* str.split(sep)
RECURSIVE split(_, _)
split_at(s, sep, i) ==
    IF i = 0 THEN <<s>>
    ELSE <<SubSeq(s, 1, i - 1)>> \o split(SubSeq(s, i + 1, Len(s)), sep)

split(s, sep) == split_at(s, sep, find(s, {sep}))

\* A faulty blur_parts: it takes the first four parts of a longer region.
blur_first_four(parts, tool) ==
    IF Len(parts) < 4 THEN Out(FALSE, FALSE, FALSE, NoCmd)
    ELSE run_tool([NoCmd EXCEPT !.filter = SubSeq(parts, 1, 4)], tool)

\* x, y, w, h = parts raises ValueError unless there are four parts.
blur_parts(parts, tool) ==
    IF Len(parts) # 4 THEN Out(FALSE, FALSE, FALSE, NoCmd)
    ELSE run_tool([NoCmd EXCEPT !.filter = parts], tool)

\* remove_watermark_by_blurring
remove_watermark_by_blurring(blur_region, tool) ==
    blur_parts(split(blur_region, ":"), tool)

\* A faulty target_bitrate: round(...) in place of int(...).
target_bitrate_rounded(target_size_mb, duration) ==
    (2 * target_size_mb * 8 * 1024 + duration) \div (2 * duration)

\* target_bitrate = int((target_size_mb * 8 * 1024) / duration)
target_bitrate(target_size_mb, duration) ==
    (target_size_mb * 8 * 1024) \div duration

\* The encoder's command: the rates are in kbps; the max-rate,
\* target_bitrate * 1.2, is kept in tenths of a kbps.
compress_cmd(bitrate) ==
    [bitrate |-> bitrate, maxrate_tenths |-> bitrate * 12,
     bufsize |-> bitrate * 2, filter |-> <<>>]

\* metadata.get('format', {}).get('duration', 0)
duration_of(metadata) ==
    IF metadata.has_format THEN get_or_0(metadata.duration) ELSE Int_(0)

\* compress_video, from duration = float(...) on: float raises ValueError
\* on a text that is no number.
compress_for(duration, target_size_mb, tool) ==
    IF duration.t = "text" THEN Out(FALSE, FALSE, FALSE, NoCmd)
    ELSE IF duration.v = 0 THEN Out(FALSE, FALSE, FALSE, NoCmd)
    ELSE run_tool(compress_cmd(target_bitrate(target_size_mb, duration.v)), tool)

\* compress_video
compress_video(target_size_mb, probe, tool) ==
    compress_for(duration_of(get_video_metadata(probe)), target_size_mb, tool)

(***************************************************************************)
(* The service: requests arrive one after another; each action is one      *)
(* request handled from its body to its response.  The outcome of the      *)
(* extraction library is drawn only for a request that reaches it.         *)
(***************************************************************************)
MaxInfoFormats == 2

\* The lists of at most n formats over the choices cs, format_id the position.
FormatLists(cs, n) ==
    UNION { { [i \in 1..k |-> [format_id |-> i, vcodec |-> f[i].vcodec,
                               acodec |-> f[i].acodec, height |-> f[i].height,
                               filesize |-> f[i].filesize]] :
                f \in [1..k -> cs] } : k \in 0..n }

NoInfo == [present |-> FALSE, formats |-> <<>>]

ExtractorOutcomes ==
    { [raises |-> TRUE, text |-> e, info |-> NoInfo] : e \in LibErrors }
    \cup { [raises |-> FALSE, text |-> NoText, info |-> NoInfo] }
    \cup { [raises |-> FALSE, text |-> NoText,
            info |-> [present |-> TRUE, formats |-> fl]] :
              fl \in FormatLists(
                        { [vcodec |-> "avc1", acodec |-> "mp4a",
                           height |-> Int_(720), filesize |-> s] :
                              s \in {Absent, Null, Int_(1)} },
                        MaxInfoFormats) }

Init ==
    /\ users = <<>>
    /\ calls = <<>>
    /\ files = <<>>
    /\ reqs = <<>>
    /\ vinfo = IdleLast
    /\ temp_dirs = {}
    /\ last = IdleLast
    /\ det = IdleDet
    /\ qual = IdleQual
    /\ fmt = IdleFmt
    /\ proc = IdleProc

ApiDetect ==
    \E body \in Bodies, verdict \in BOOLEAN :
        /\ last' = [op |-> "detect", body |-> body, verdict |-> verdict,
                    resp |-> detect_video_platform(body, verdict)]
        /\ UNCHANGED <<users, temp_dirs, det, qual, fmt, proc, calls, files, reqs, vinfo>>

ApiInfo ==
    \E body \in Bodies, verdict \in BOOLEAN :
        \E lib \in IF get_video_information(body, verdict, NoLib).lib_calls > 0
                   THEN ExtractOutcomes ELSE {NoLib} :
            /\ last' = [op |-> "info", body |-> body, verdict |-> verdict,
                        lib |-> lib,
                        resp |-> get_video_information(body, verdict, lib)]
            /\ UNCHANGED <<users, temp_dirs, det, qual, fmt, proc, calls, files, reqs, vinfo>>

ApiDownload ==
    \E body \in Bodies, verdict \in BOOLEAN, format \in {"absent", "webm"} :
        \E dl \in IF download_video_endpoint(body, verdict, format, temp_dirs,
                                             NoDownload).resp.lib_calls > 0
                  THEN DownloadOutcomes ELSE {NoDownload} :
            \E r \in {download_video_endpoint(body, verdict, format, temp_dirs, dl)} :
                /\ Cardinality(r.dirs) <= MaxTempDirs
                /\ temp_dirs' = r.dirs
                /\ last' = [op |-> "download", body |-> body,
                            verdict |-> verdict, format |-> format,
                            dl |-> dl, before |-> temp_dirs, resp |-> r.resp,
                            ret |-> r.ret]
                /\ UNCHANGED <<users, det, qual, fmt, proc, calls, files, reqs, vinfo>>

CreateUser ==
    \E body \in UserBodies :
        \E r \in {create_user(body, users)} :
            /\ Len(r.table) <= MaxRows
            /\ users' = r.table
            /\ last' = [op |-> "create_user", body |-> body, before |-> users,
                        status |-> r.status, error |-> r.error]
            /\ UNCHANGED <<temp_dirs, det, qual, fmt, proc, calls, files, reqs, vinfo>>

YouTubeExtract ==
    \E lib \in ExtractorOutcomes :
        /\ last' = [op |-> "youtube_extract", lib |-> lib,
                    out |-> YouTubeExtractor_extract_video_info(lib)]
        /\ UNCHANGED <<users, temp_dirs, det, qual, fmt, proc, calls, files, reqs, vinfo>>

TikTokExtract ==
    \E lib \in ExtractorOutcomes :
        /\ last' = [op |-> "tiktok_extract", lib |-> lib,
                    out |-> TikTokExtractor_extract_video_info(lib)]
        /\ UNCHANGED <<users, temp_dirs, det, qual, fmt, proc, calls, files, reqs, vinfo>>

Next ==
    \/ ApiDetect
    \/ ApiInfo
    \/ ApiDownload
    \/ YouTubeExtract
    \/ TikTokExtract

Spec == Init /\ [][Next]_vars

\* The user table on its own: any sequence of POST /users requests.
SpecUsers == Init /\ [][CreateUser]_vars


(***************************************************************************)
(* _get_quality_label on its own: one call on every height up to the       *)
(* bound.                                                                  *)
(***************************************************************************)
MaxHeight == 2200

QualityInit ==
    /\ qual \in {[height |-> h, label |-> "pending"] : h \in 0..MaxHeight}
    /\ users = <<>>
    /\ calls = <<>>
    /\ files = <<>>
    /\ reqs = <<>>
    /\ vinfo = IdleLast
    /\ temp_dirs = {}
    /\ last = IdleLast
    /\ det = IdleDet
    /\ fmt = IdleFmt
    /\ proc = IdleProc

GetQualityLabel ==
    /\ qual.label = "pending"
    /\ qual' = [qual EXCEPT !.label = _get_quality_label(qual.height)]
    /\ UNCHANGED <<users, temp_dirs, last, det, fmt, proc, calls, files, reqs, vinfo>>

SpecQuality == QualityInit /\ [][GetQualityLabel]_vars

(***************************************************************************)
(* _extract_formats on its own: one call on every list of formats up to    *)
(* the bound.                                                              *)
(***************************************************************************)
MaxFormats == 2

FormatChoices ==
    { [vcodec |-> c.vcodec, acodec |-> c.acodec, height |-> h, filesize |-> s] :
          c \in { [vcodec |-> "avc1", acodec |-> "mp4a"],
                   [vcodec |-> "none", acodec |-> "mp4a"],
                   [vcodec |-> "avc1", acodec |-> "none"] },
          h \in {Absent, Int_(719), Int_(720)},
          s \in {Absent, Null, Int_(1), Int_(2)} }

NoFormats == [raised |-> FALSE, err |-> NoText, formats |-> <<>>]

FormatsInit ==
    /\ fmt \in {[info |-> NoInfo, done |-> FALSE, out |-> NoFormats]}
               \cup {[info |-> [present |-> TRUE, formats |-> fl],
                      done |-> FALSE, out |-> NoFormats] :
                        fl \in FormatLists(FormatChoices, MaxFormats)}
    /\ users = <<>>
    /\ calls = <<>>
    /\ files = <<>>
    /\ reqs = <<>>
    /\ vinfo = IdleLast
    /\ temp_dirs = {}
    /\ last = IdleLast
    /\ det = IdleDet
    /\ qual = IdleQual
    /\ proc = IdleProc

ExtractFormats ==
    /\ ~fmt.done
    /\ fmt' = [fmt EXCEPT !.done = TRUE, !.out = _extract_formats(fmt.info)]
    /\ UNCHANGED <<users, temp_dirs, last, det, qual, proc, calls, files, reqs, vinfo>>

SpecFormats == FormatsInit /\ [][ExtractFormats]_vars

(***************************************************************************)
(* The VideoProcessor on its own: one call of one operation, with the      *)
(* outcomes of the probe and of the tool it may run.                       *)
(***************************************************************************)
BlurRegions ==
    { <<"1", ":", "2", ":", "3", ":", "4">>,
      <<"1", ":", "2", ":", "3">>,
      <<"1", ":", "2", ":", "3", ":", "4", ":", "5">>,
      <<"1", "2">>,
      <<>> }

SimpleOps ==
    { "enhance_video_quality", "remove_watermark_by_cropping", "convert_format",
      "extract_audio", "create_thumbnail" }

Call(op, target_size_mb, blur_region, probe, tool) ==
    [op |-> op, target_size_mb |-> target_size_mb, blur_region |-> blur_region,
     probe |-> probe, tool |-> tool, done |-> FALSE,
     out |-> Out(FALSE, FALSE, FALSE, NoCmd)]

Calls ==
    { Call(op, 0, <<>>, NoProbe, t) : op \in SimpleOps, t \in ToolOutcomes }
    \cup { Call("remove_watermark_by_blurring", 0, r, NoProbe, t) :
              r \in BlurRegions, t \in ToolOutcomes }
    \cup { Call("compress_video", m, <<>>, p, t) :
              m \in 1..MaxSizeMb, p \in ProbeOutcomes, t \in ToolOutcomes }

ProcessorInit ==
    /\ proc \in Calls
    /\ users = <<>>
    /\ calls = <<>>
    /\ files = <<>>
    /\ reqs = <<>>
    /\ vinfo = IdleLast
    /\ temp_dirs = {}
    /\ last = IdleLast
    /\ det = IdleDet
    /\ qual = IdleQual
    /\ fmt = IdleFmt

\* The call proc describes returns out.
Return(op, out) ==
    /\ proc.op = op
    /\ ~proc.done
    /\ proc' = [proc EXCEPT !.done = TRUE, !.out = out]
    /\ UNCHANGED <<users, temp_dirs, last, det, qual, fmt, calls, files, reqs, vinfo>>

EnhanceVideoQuality ==
    Return("enhance_video_quality", enhance_video_quality(proc.tool))

RemoveWatermarkByCropping ==
    Return("remove_watermark_by_cropping", remove_watermark_by_cropping(proc.tool))

RemoveWatermarkByBlurring ==
    Return("remove_watermark_by_blurring",
           remove_watermark_by_blurring(proc.blur_region, proc.tool))

ConvertFormat == Return("convert_format", convert_format(proc.tool))

CompressVideo ==
    Return("compress_video",
           compress_video(proc.target_size_mb, proc.probe, proc.tool))

ExtractAudio == Return("extract_audio", extract_audio(proc.tool))

CreateThumbnail == Return("create_thumbnail", create_thumbnail(proc.tool))

ProcessorNext ==
    \/ EnhanceVideoQuality
    \/ RemoveWatermarkByCropping
    \/ RemoveWatermarkByBlurring
    \/ ConvertFormat
    \/ CompressVideo
    \/ ExtractAudio
    \/ CreateThumbnail

SpecProcessor == ProcessorInit /\ [][ProcessorNext]_vars


(***************************************************************************)
(* download_video under concurrent calls.  A call goes through its steps   *)
(* in order: tempfile.mkdtemp(), extract_info, download, the scan of its   *)
(* directory; the steps of different calls interleave freely.  mkdtemp     *)
(* makes its directory in one step of the file system.  The library writes *)
(* the files of a call under that call's outtmpl, in its directory.        *)
(***************************************************************************)
MaxCalls == 2

DownloadsInit ==
    /\ calls = [i \in 1..MaxCalls |->
                   [pc |-> "start", temp_dir |-> 0, dl |-> NoDownload,
                    ret |-> NotCalled]]
    /\ files = <<>>
    /\ temp_dirs = {}
    /\ users = <<>>
    /\ last = IdleLast
    /\ det = IdleDet
    /\ qual = IdleQual
    /\ fmt = IdleFmt
    /\ proc = IdleProc
    /\ reqs = <<>>
    /\ vinfo = IdleLast

\* temp_dir = tempfile.mkdtemp()
MakeTempDir(i) ==
    /\ calls[i].pc = "start"
    /\ \E d \in {mkdtemp(temp_dirs)} :
          /\ calls' = [calls EXCEPT ![i].pc = "made", ![i].temp_dir = d]
          /\ temp_dirs' = temp_dirs \cup {d}
          /\ files' = IF d \in DOMAIN files THEN files ELSE (d :> <<>>) @@ files
    /\ UNCHANGED <<users, last, det, qual, fmt, proc, reqs, vinfo>>

\* The call i ends with what download_video gives for the outcome dl.
finish(i, dl) ==
    calls' = [calls EXCEPT
                 ![i].pc = "done",
                 ![i].dl = dl,
                 ![i].ret = download_video(NoText, "mp4", calls[i].temp_dir, dl)]

\* info = ydl.extract_info(url, download=False)
ExtractInfo(i) ==
    /\ calls[i].pc = "made"
    /\ \E x \in ExtractOutcomes :
          IF x.raises
          THEN finish(i, [calls[i].dl EXCEPT !.extract = x])
          ELSE calls' = [calls EXCEPT ![i].pc = "extracted", ![i].dl.extract = x]
    /\ UNCHANGED <<users, temp_dirs, files, last, det, qual, fmt, proc, reqs, vinfo>>

\* ydl.download([url]) raises
DownloadRaises(i) ==
    /\ calls[i].pc = "extracted"
    /\ \E e \in LibErrors :
          finish(i, [calls[i].dl EXCEPT !.dl_raises = TRUE, !.dl_text = e])
    /\ UNCHANGED <<users, temp_dirs, files, last, det, qual, fmt, proc, reqs, vinfo>>

\* ydl.download([url]) writes its files, each marked with the call it is of
Download(i) ==
    /\ calls[i].pc = "extracted"
    /\ \E l \in Listings :
          files' = [files EXCEPT ![calls[i].temp_dir] =
                       @ \o [k \in 1..Len(l) |->
                                [name |-> l[k].name, size |-> l[k].size,
                                 by |-> i]]]
    /\ calls' = [calls EXCEPT ![i].pc = "downloaded"]
    /\ UNCHANGED <<users, temp_dirs, last, det, qual, fmt, proc, reqs, vinfo>>

\* for file in os.listdir(temp_dir): ...
Scan(i) ==
    /\ calls[i].pc = "downloaded"
    /\ finish(i, [calls[i].dl EXCEPT !.listing = files[calls[i].temp_dir]])
    /\ UNCHANGED <<users, temp_dirs, files, last, det, qual, fmt, proc, reqs, vinfo>>

DownloadsNext ==
    \E i \in 1..MaxCalls :
        \/ MakeTempDir(i)
        \/ ExtractInfo(i)
        \/ DownloadRaises(i)
        \/ Download(i)
        \/ Scan(i)

SpecDownloads == DownloadsInit /\ [][DownloadsNext]_vars

(***************************************************************************)
(* get_video_info on its own: one call on an info dict of the library.     *)
(* A description is a text of a given length; the texts up to the bound    *)
(* straddle the cut.                                                       *)
(***************************************************************************)
MaxDescription == 202

Infos ==
    [duration : {Absent, Null, Int_(95)},
     view_count : {Absent, Int_(7)},
     thumbnail : {[t |-> "absent", v |-> ""], [t |-> "str", v |-> "th"]},
     uploader : {[t |-> "absent", v |-> ""], [t |-> "null", v |-> ""],
                 [t |-> "str", v |-> "up"]},
     upload_date : {[t |-> "absent", v |-> ""], [t |-> "str", v |-> "20240101"]},
     description :
         {[t |-> "absent", v |-> <<>>], [t |-> "null", v |-> <<>>]}
         \cup {[t |-> "str",
                v |-> [i \in 1..n |-> IF i % 2 = 0 THEN "a" ELSE "b"]] :
                  n \in {0, 1, DescriptionCut - 1, DescriptionCut,
                         DescriptionCut + 1, MaxDescription}},
     formats :
         {[t |-> "absent", v |-> <<>>],
          [t |-> "list",
           v |-> << [format_id |-> 1, vcodec |-> "avc1"],
                    [format_id |-> 2, vcodec |-> "none"] >>]}]

InfoInit ==
    /\ vinfo \in {[op |-> "get_video_info",
                   lib |-> [Returns(t) EXCEPT !.info = i],
                   done |-> FALSE,
                   out |-> NoPayload] : t \in Titles, i \in Infos}
    /\ calls = <<>>
    /\ files = <<>>
    /\ reqs = <<>>
    /\ users = <<>>
    /\ temp_dirs = {}
    /\ last = IdleLast
    /\ det = IdleDet
    /\ qual = IdleQual
    /\ fmt = IdleFmt
    /\ proc = IdleProc

GetVideoInfo ==
    /\ vinfo.op = "get_video_info"
    /\ ~vinfo.done
    /\ vinfo' = [vinfo EXCEPT
                    !.done = TRUE,
                    !.out = get_video_info(NoText, vinfo.lib).video_info]
    /\ UNCHANGED <<users, temp_dirs, last, det, qual, fmt, proc, calls, files, reqs>>

SpecInfo == InfoInit /\ [][GetVideoInfo]_vars

(***************************************************************************)
(* POST /users under concurrent requests.  A request first reads its body  *)
(* and queries the table (lines 13-21), and, when it found no row, adds    *)
(* and commits its own (lines 23-27); the steps of different requests      *)
(* interleave.  The columns of the table are declared outside these        *)
(* sources: a commit of a row whose username or email is in the table      *)
(* either fails on a unique column, an exception create_user does not      *)
(* handle (status 500), or adds the row.                                   *)
(***************************************************************************)
MaxRequests == 2

RequestsInit ==
    /\ reqs \in [1..MaxRequests ->
                    {[pc |-> "start", body |-> b, status |-> 0] :
                        b \in UserBodies}]
    /\ users = <<>>
    /\ calls = <<>>
    /\ files = <<>>
    /\ vinfo = IdleLast
    /\ temp_dirs = {}
    /\ last = IdleLast
    /\ det = IdleDet
    /\ qual = IdleQual
    /\ fmt = IdleFmt
    /\ proc = IdleProc

\* create_user() up to the query: 400, 409, or on to the insert
CheckUser(i) ==
    /\ reqs[i].pc = "start"
    /\ \E r \in {create_user(reqs[i].body, users)} :
          reqs' = [reqs EXCEPT
                      ![i].pc = IF r.status = 201 THEN "checked" ELSE "done",
                      ![i].status = IF r.status = 201 THEN 0 ELSE r.status]
    /\ UNCHANGED <<users, temp_dirs, last, det, qual, fmt, proc, calls, files, vinfo>>

\* db.session.add(new_user); db.session.commit(); return ..., 201
CommitUser(i) ==
    /\ reqs[i].pc = "checked"
    /\ \/ /\ users' = Append(users, [id |-> Len(users) + 1,
                                     username |-> reqs[i].body.username,
                                     email |-> reqs[i].body.email])
          /\ reqs' = [reqs EXCEPT ![i].pc = "done", ![i].status = 201]
       \/ /\ \E k \in 1..Len(users) :
                \/ users[k].username = reqs[i].body.username
                \/ users[k].email = reqs[i].body.email
          /\ users' = users
          /\ reqs' = [reqs EXCEPT ![i].pc = "done", ![i].status = 500]
    /\ UNCHANGED <<temp_dirs, last, det, qual, fmt, proc, calls, files, vinfo>>

SpecRequests ==
    RequestsInit /\ [][\E i \in 1..MaxRequests : CheckUser(i) \/ CommitUser(i)]_vars

(***************************************************************************)
(* Properties of the HTTP layer.                                           *)
(***************************************************************************)
IsApi == last.op \in {"detect", "info", "download"}

\* The url of a body that has one to check: '' for an absent key.
HasUrlText(body) == body.kind = "object" /\ body.url.t \in {"absent", "str"}

UrlOf(body) == IF body.url.t = "str" THEN strip(body.url.s) ELSE NoText

Rejected(resp, error) ==
    /\ resp.status = 400
    /\ ~resp.success
    /\ resp.error = error
    /\ resp.lib_calls = 0

\* The first check the url fails, in the order empty, format, platform.
FirstFailure(url, verdict) ==
    IF url = NoText THEN <<"URL is required">>
    ELSE IF ~verdict THEN <<"Invalid URL format">>
    ELSE IF detect_platform(url) = None THEN <<"Unsupported platform">>
    ELSE NoText

\* C2: in /api/detect, /api/info and /api/download a url that is empty, fails
\* the format check or matches no platform is answered 400 with success false
\* by the first of those checks it fails, in that order, and the extraction
\* library is not called for it; /api/detect never calls the library.
C2_ChecksBeforeLibrary ==
    IsApi =>
        /\ last.op = "detect" => last.resp.lib_calls = 0
        /\ (HasUrlText(last.body)
            /\ FirstFailure(UrlOf(last.body), last.verdict) # NoText)
           => Rejected(last.resp, FirstFailure(UrlOf(last.body), last.verdict))
        /\ last.resp.lib_calls > 0
           => /\ HasUrlText(last.body)
              /\ FirstFailure(UrlOf(last.body), last.verdict) = NoText

\* A download request with a well-formed url of no registered platform was
\* refused before the library was called.
C2_Witness ==
    /\ last.op = "download"
    /\ last.verdict
    /\ last.resp.error = <<"Unsupported platform">>
    /\ last.resp.lib_calls = 0

\* The url of the request is missing or malformed.
MissingOrMalformed(body, verdict) ==
    \/ ~HasUrlText(body)
    \/ UrlOf(body) = NoText
    \/ ~verdict

\* C3: every request to /api/detect, /api/info or /api/download whose url is
\* missing or malformed is answered 400 with success false, whatever the
\* shape of the body, and never 500.
C3_BadUrlIs400 ==
    (IsApi /\ MissingOrMalformed(last.body, last.verdict))
        => (last.resp.status = 400 /\ ~last.resp.success)

\* text occurs in msg
Contains(msg, text) ==
    \E i \in 1..(Len(msg) - Len(text) + 1) :
        SubSeq(msg, i, i + Len(text) - 1) = text

\* C4: when the library raises during metadata extraction, /api/info answers
\* 500 with success false and the error of get_video_info, which holds the
\* library's text, after exactly one call of the library; the extractors'
\* extract_video_info return the error with that text after one call, and no
\* exception leaves them.
C4_LibraryFailureReported ==
    /\ (last.op = "info" /\ last.lib \in {Raises(e) : e \in LibErrors})
       => /\ last.resp.status = 500
          /\ ~last.resp.success
          /\ last.resp.error = <<"Failed to extract video info: ">> \o last.lib.text
          /\ Contains(last.resp.error, last.lib.text)
          /\ last.resp.lib_calls = 1
    /\ (last.op \in {"youtube_extract", "tiktok_extract"})
       => /\ ~last.out.escaped
          /\ last.out.calls = 1
          /\ last.lib.raises
             => (last.out.failed /\ last.out.error = last.lib.text)

\* The library raised E1 under /api/info and the request was answered 500.
C4_Witness ==
    /\ last.op = "info"
    /\ last.lib = Raises(<<"E1">>)
    /\ last.resp.status = 500

(***************************************************************************)
(* Properties of POST /users.                                              *)
(***************************************************************************)
Missing(body) == body.username \in {"absent", ""} \/ body.email \in {"absent", ""}

Taken(body, table) ==
    \E i \in 1..Len(table) :
        table[i].username = body.username \/ table[i].email = body.email

Unique(table) ==
    \A i, j \in 1..Len(table) :
        i # j => /\ table[i].username # table[j].username
                 /\ table[i].email # table[j].email

QualitySteps ==
    { <<2160, "4K">>, <<1440, "1440p">>, <<1080, "1080p">>, <<720, "720p">>,
      <<480, "480p">>, <<360, "360p">> }

\* The label of the greatest step not above the height, "240p" below all.
StepLabel(height) ==
    IF \A st \in QualitySteps : st[1] > height THEN "240p"
    ELSE (CHOOSE st \in QualitySteps :
              /\ st[1] <= height
              /\ \A other \in QualitySteps :
                     other[1] <= height => other[1] <= st[1])[2]

Rank(label) ==
    CASE label = "240p" -> 0
      [] label = "360p" -> 1
      [] label = "480p" -> 2
      [] label = "720p" -> 3
      [] label = "1080p" -> 4
      [] label = "1440p" -> 5
      [] label = "4K" -> 6

\* C6: the label of a height is that of the greatest step not above it
\* (719 gives 480p, 720 gives 720p), and it does not rank below the label of
\* the height one less; over all heights the label is monotone.
C6_QualityStepFunction ==
    qual.label \notin {"pending", "idle"} =>
        /\ qual.label = StepLabel(qual.height)
        /\ qual.height = 719 => qual.label = "480p"
        /\ qual.height = 720 => qual.label = "720p"
        /\ qual.height > 0 =>
              Rank(_get_quality_label(qual.height - 1)) <= Rank(qual.label)

\* The label of height 720 was computed.
C6_Witness == qual.height = 720 /\ qual.label = "720p"

\* A format counts when neither codec is 'none'.
Qualifies(f) == f.vcodec # "none" /\ f.acodec # "none"

\* The file size of a format, an unknown one counted as 0.
SizeOr0(f) == IF f.filesize.t = "int" THEN f.filesize.v ELSE 0

LabelOf(f) == _get_quality_label(IF f.height.t = "int" THEN f.height.v ELSE 0)

\* C7: _extract_formats returns a list, and of two formats that count and
\* share a quality label the one with the smaller file size, an unknown size
\* counted as 0, is not in it.
C7_LargerSizeRetained ==
    (fmt.done /\ fmt.info.present) =>
        /\ ~fmt.out.raised
        /\ \A i, j \in 1..Len(fmt.info.formats) :
              (/\ Qualifies(fmt.info.formats[i])
               /\ Qualifies(fmt.info.formats[j])
               /\ LabelOf(fmt.info.formats[i]) = LabelOf(fmt.info.formats[j])
               /\ SizeOr0(fmt.info.formats[i]) > SizeOr0(fmt.info.formats[j]))
              => \A k \in 1..Len(fmt.out.formats) :
                     fmt.out.formats[k].format_id # j

(***************************************************************************)
(* Properties of the VideoProcessor.                                       *)
(***************************************************************************)
\* The duration the probe reported: 0 when it reported none.
KnownDuration(probe) ==
    IF ~probe.raises /\ probe.code = 0 /\ probe.stdout.kind = "duration"
    THEN probe.stdout.d ELSE 0

Compressed == proc.op = "compress_video" /\ proc.done

\* C8 as stated: the bitrate is target_size_mb * 8 * 1024 / duration, the
\* max-rate 1.2 times and the buffer size 2 times that.
C8_ExactBitrate ==
    (Compressed /\ KnownDuration(proc.probe) > 0) =>
        /\ proc.out.cmd.bitrate * KnownDuration(proc.probe)
              = proc.target_size_mb * 8 * 1024
        /\ proc.out.cmd.maxrate_tenths * KnownDuration(proc.probe)
              = 12 * proc.target_size_mb * 8 * 1024
        /\ proc.out.cmd.bufsize * KnownDuration(proc.probe)
              = 2 * proc.target_size_mb * 8 * 1024

\* C8, amended: the bitrate is the whole part of
\* target_size_mb * 8 * 1024 / duration, the max-rate 1.2 times and the
\* buffer size 2 times that whole number.
C8_TruncatedBitrate ==
    (Compressed /\ KnownDuration(proc.probe) > 0) =>
        /\ proc.out.invoked
        /\ proc.out.cmd.bitrate * KnownDuration(proc.probe)
              <= proc.target_size_mb * 8 * 1024
        /\ (proc.out.cmd.bitrate + 1) * KnownDuration(proc.probe)
              > proc.target_size_mb * 8 * 1024
        /\ proc.out.cmd.maxrate_tenths = 12 * proc.out.cmd.bitrate
        /\ proc.out.cmd.bufsize = 2 * proc.out.cmd.bitrate

\* 50 MB over 30 s: 13653 kbps, 16383.6 kbps and 27306 kbps.
C8_Witness ==
    /\ Compressed
    /\ proc.target_size_mb = 50
    /\ KnownDuration(proc.probe) = 30
    /\ proc.out.cmd.bitrate = 13653
    /\ proc.out.cmd.maxrate_tenths = 163836
    /\ proc.out.cmd.bufsize = 27306

\* C9: compress_video returns False without calling the encoder when the
\* probe exits non-zero, raises, reports no duration or reports 0; the
\* encoder is called only after a probe that reported a duration other than 0.
C9_NoEncoderWithoutDuration ==
    Compressed =>
        /\ KnownDuration(proc.probe) = 0
           => (~proc.out.ret /\ ~proc.out.invoked /\ ~proc.out.ran)
        /\ proc.out.invoked => KnownDuration(proc.probe) # 0

\* The probe exited non-zero with a duration in its output, and
\* compress_video returned False without calling the encoder.
C9_Witness ==
    /\ Compressed
    /\ proc.probe.code # 0
    /\ proc.probe.stdout.kind = "duration"
    /\ ~proc.out.ret
    /\ ~proc.out.invoked

\* The number of parts blur_region splits into.
PartCount(region) == Cardinality(positions(region, {":"})) + 1

\* C10: every operation returns True exactly when the tool ran and exited
\* with code 0, returns False when it exited with another code or when
\* something raised, lets no exception out, and does not call the tool for a
\* blur_region that does not split into four parts.
C10_TrueIffToolSucceeded ==
    proc.done =>
        /\ proc.out.ret <=> (proc.out.ran /\ proc.tool.code = 0)
        /\ ~proc.out.escaped
        /\ proc.out.ran => (proc.out.invoked /\ ~proc.tool.raises)
        /\ (proc.out.invoked /\ proc.tool.raises) => ~proc.out.ret
        /\ (proc.op = "remove_watermark_by_blurring"
            /\ PartCount(proc.blur_region) # 4)
           => (~proc.out.invoked /\ ~proc.out.ret)
        /\ (proc.op \in SimpleOps
            \/ (proc.op = "remove_watermark_by_blurring"
                /\ PartCount(proc.blur_region) = 4))
           => proc.out.invoked

\* A blur_region of five parts: False, and a tool that would have exited 0
\* was not called.
C10_Witness ==
    /\ proc.done
    /\ proc.op = "remove_watermark_by_blurring"
    /\ PartCount(proc.blur_region) = 5
    /\ proc.tool = [raises |-> FALSE, code |-> 0]
    /\ ~proc.out.ret
    /\ ~proc.out.invoked


(***************************************************************************)
(* Properties of the download path.                                        *)
(***************************************************************************)
\* The call has made its directory.
HasDir(i) == calls[i].pc # "start"

Returned(i) == calls[i].pc = "done" /\ ~calls[i].ret.raised

\* C11: in every interleaving of download_video calls, the calls that have
\* made their directory hold different directories, each of them on disk,
\* and the file a call returns is in that call's directory and was written
\* by that call.
C11_DistinctTempDirs ==
    \A i \in 1..MaxCalls :
        /\ HasDir(i) => calls[i].temp_dir \in temp_dirs
        /\ \A j \in 1..MaxCalls :
              (i # j /\ HasDir(i) /\ HasDir(j))
                  => calls[i].temp_dir # calls[j].temp_dir
        /\ Returned(i) =>
              /\ calls[i].ret.result.temp_dir = calls[i].temp_dir
              /\ calls[i].ret.result.file_path[1] = calls[i].temp_dir
              /\ \E k \in 1..Len(files[calls[i].temp_dir]) :
                    /\ files[calls[i].temp_dir][k].by = i
                    /\ files[calls[i].temp_dir][k].name
                          = calls[i].ret.result.file_path[2]

\* Two calls have both returned a file, each from its own directory.
C11_Witness ==
    /\ Returned(1)
    /\ Returned(2)
    /\ calls[1].temp_dir # calls[2].temp_dir
    /\ calls[1].ret.result.filename = F_mp4.name
    /\ calls[2].ret.result.filename = F_webm.name

\* download_video was called in the request that ended last.
ReachedMkdtemp(l) == l.op = "download" /\ l.ret.calls > 0

\* C12: no step of the service removes a temporary directory; a request that
\* reached download_video leaves exactly one more directory than there was,
\* whether the call returned a file, found none or failed in the library,
\* and any other request leaves the directories as they were: the
\* directories on disk are as many as the calls that made one.
C12_TempDirsKept ==
    [][/\ temp_dirs \subseteq temp_dirs'
       /\ IF ReachedMkdtemp(last')
          THEN /\ last'.before = temp_dirs
               /\ Cardinality(temp_dirs') = Cardinality(temp_dirs) + 1
          ELSE temp_dirs' = temp_dirs]_vars

\* A call that failed in the library left its directory beside that of an
\* earlier call.
C12_Witness ==
    /\ ReachedMkdtemp(last)
    /\ last.dl.extract.raises
    /\ last.resp.status = 500
    /\ Cardinality(last.before) = 1
    /\ Cardinality(temp_dirs) = 2

(***************************************************************************)
(* Properties of get_video_info.                                           *)
(***************************************************************************)
\* The field is missing from the library's info.
Left_out(x) == x.t = "absent"

Empty == [t |-> "str", v |-> ""]

\* C13: get_video_info gives duration 0 and view count 0 for a missing
\* duration and view count, the empty string for a missing thumbnail,
\* uploader and description, copies every field that is present, and gives
\* a description that is present as its first 200 characters followed by
\* the ellipsis.
C13_MetadataDefaults ==
    vinfo.done =>
        /\ vinfo.out.duration
              = IF Left_out(vinfo.lib.info.duration) THEN Int_(0)
                ELSE vinfo.lib.info.duration
        /\ vinfo.out.view_count
              = IF Left_out(vinfo.lib.info.view_count) THEN Int_(0)
                ELSE vinfo.lib.info.view_count
        /\ vinfo.out.thumbnail
              = IF Left_out(vinfo.lib.info.thumbnail) THEN Empty
                ELSE vinfo.lib.info.thumbnail
        /\ vinfo.out.uploader
              = IF Left_out(vinfo.lib.info.uploader) THEN Empty
                ELSE vinfo.lib.info.uploader
        /\ Left_out(vinfo.lib.info.description) => vinfo.out.description = <<>>
        /\ (vinfo.lib.info.description.t = "str"
            /\ vinfo.lib.info.description.v # <<>>)
           => \E n \in 1..DescriptionCut :
                 /\ n = Len(vinfo.lib.info.description.v) \/ n = DescriptionCut
                 /\ n <= Len(vinfo.lib.info.description.v)
                 /\ vinfo.out.description
                       = SubSeq(vinfo.lib.info.description.v, 1, n)
                         \o <<".", ".", ".">>

(***************************************************************************)
(* Properties of download_video's result.                                  *)
(***************************************************************************)
\* The name ends with a dot and one of the four extensions.
HasVideoExt(name) ==
    \E k \in 1..Len(name) :
        /\ name[k] = "."
        /\ SubSeq(name, k + 1, Len(name))
              \in { <<"m", "p", "4">>, <<"w", "e", "b", "m">>,
                    <<"m", "k", "v">>, <<"a", "v", "i">> }

\* The place in the listing of the first file with a video extension, 0
\* when there is none.
FirstVideo(listing) ==
    IF \A k \in 1..Len(listing) : ~HasVideoExt(listing[k].name) THEN 0
    ELSE CHOOSE k \in 1..Len(listing) :
             /\ HasVideoExt(listing[k].name)
             /\ \A j \in 1..(k - 1) : ~HasVideoExt(listing[j].name)

\* The one download error with this text.
DownloadError(ret, text) ==
    /\ ret.raised
    /\ ret.err = <<"Download failed: ">> \o text

\* C14: a call of download_video whose library steps completed returns the
\* first file of its directory with one of the extensions mp4, webm, mkv,
\* avi, with its path, name, size, the title and the directory; with no such
\* file it fails with the download error that no file was found; when the
\* library raises it fails with the download error holding the library's
\* text; and POST /api/download answers every such failure with 500,
\* success false and that error.
C14_FirstVideoFileOrError ==
    ReachedMkdtemp(last) =>
        /\ IF last.dl.extract.raises
           THEN DownloadError(last.ret, last.dl.extract.text)
           ELSE IF last.dl.dl_raises
           THEN DownloadError(last.ret, last.dl.dl_text)
           ELSE IF FirstVideo(last.dl.listing) = 0
           THEN DownloadError(last.ret, <<"No video file found after download">>)
           ELSE /\ ~last.ret.raised
                /\ last.ret.result.temp_dir \in temp_dirs \ last.before
                /\ last.ret.result.filename
                      = last.dl.listing[FirstVideo(last.dl.listing)].name
                /\ last.ret.result.size
                      = last.dl.listing[FirstVideo(last.dl.listing)].size
                /\ last.ret.result.file_path
                      = <<last.ret.result.temp_dir, last.ret.result.filename>>
                /\ last.ret.result.title
                      = IF last.dl.extract.title = "absent" THEN "video"
                        ELSE last.dl.extract.title
        /\ last.ret.raised
           => /\ last.resp.status = 500
              /\ ~last.resp.success
              /\ last.resp.error = last.ret.err
        /\ ~last.ret.raised
           => /\ last.resp.status = 200
              /\ last.resp.payload.file_path = last.ret.result.file_path

\* The directory held two video files and the call returned the first.
C14_Witness ==
    /\ ReachedMkdtemp(last)
    /\ last.dl.listing = <<F_webm, F_mp4>>
    /\ last.ret.result.filename = F_webm.name
    /\ last.resp.status = 200

(***************************************************************************)
(* Properties of the detector on arbitrary texts.                          *)
(***************************************************************************)
\* The text has a network location: "//" follows a scheme or starts it.
HasNetloc(p) ==
    p.head \in { <<"/", "/">>, <<"h", "t", "t", "p", ":", "/", "/">> }

\* urlparse raises on a network location with one square bracket and not
\* the other.
ParseFails(p) ==
    /\ HasNetloc(p)
    /\ (\E k \in 1..Len(p.host) : p.host[k] = "[")
          # (\E k \in 1..Len(p.host) : p.host[k] = "]")

\* C15: for every text, detect_platform returns a registered platform id
\* or None, never an exception; it returns None when urlparse fails, for
\* the empty text and for a text without a network location.
C15_DetectNeverRaises ==
    det.result \notin {"pending", "idle"} =>
        /\ det.result \in PlatformIds \cup {None}
        /\ ParseFails(det.parts) => det.result = None
        /\ det.url = <<>> => det.result = None
        /\ ~HasNetloc(det.parts) => det.result = None

\* A text that urlparse cannot parse has been given and None returned.
C15_Witness ==
    /\ det.url = <<"h", "t", "t", "p", ":", "/", "/", "[", ":", ":", "1">>
    /\ det.result = None

(***************************************************************************)
(* Properties of the registry.                                             *)
(***************************************************************************)
\* The entries p and q share no host: no domain of one ends with a domain
\* of the other.
Apart(p, q) ==
    \A d \in 1..Len(SUPPORTED_PLATFORMS[p].domains),
       e \in 1..Len(SUPPORTED_PLATFORMS[q].domains) :
        /\ ~endswith(SUPPORTED_PLATFORMS[p].domains[d],
                     SUPPORTED_PLATFORMS[q].domains[e])
        /\ ~endswith(SUPPORTED_PLATFORMS[q].domains[e],
                     SUPPORTED_PLATFORMS[p].domains[d])

\* C16: no two entries of the registry overlap: no domain of one platform
\* ends with a domain of another, no host ends with domains of two
\* platforms, and under every iteration order of the registry
\* detect_platform returns the one platform of the host, or None.
C16_RegistryEntriesApart ==
    /\ \A p, q \in 1..Len(SUPPORTED_PLATFORMS) : p # q => Apart(p, q)
    /\ det.result \notin {"pending", "idle"} =>
          /\ Cardinality(PlatformsOfHost(HostOf(det.parts))) <= 1
          /\ IF PlatformsOfHost(HostOf(det.parts)) = {}
             THEN det.result = None
             ELSE det.result \in PlatformsOfHost(HostOf(det.parts))

\* With the registry iterated from its last entry, a host of its first was
\* detected.
C16_Witness ==
    /\ det.result = "youtube"
    /\ det.order[1] = Len(SUPPORTED_PLATFORMS)
    /\ det.order[Len(SUPPORTED_PLATFORMS)] = 1

(***************************************************************************)
(* Properties of POST /users under concurrent requests.                    *)
(***************************************************************************)
\* The two requests carry a username and an email each, and the same
\* username or the same email.
Clash(a, b) ==
    /\ ~Missing(a) /\ ~Missing(b)
    /\ (a.username = b.username \/ a.email = b.email)

\* C17: of two concurrent requests with the same username or the same
\* email, neither in the table before, one is answered 201 and the other
\* 409 in every interleaving; no request ends in an unhandled error, and no
\* two rows of the table share a username or an email.
C17_CheckAndInsertAtomic ==
    /\ Unique(users)
    /\ \A i \in 1..MaxRequests : reqs[i].status # 500
    /\ \A i, j \in 1..MaxRequests :
          (/\ i # j
           /\ reqs[i].pc = "done" /\ reqs[j].pc = "done"
           /\ Clash(reqs[i].body, reqs[j].body)
           /\ \A k \in 1..MaxRequests \ {i, j} : Missing(reqs[k].body))
          => {reqs[i].status, reqs[j].status} = {201, 409}

=============================================================================
